---- MODULE Spec2Model ----
(***************************************************************************)
(* Worksheet template designer scripts (odd_temp_veb.py,                   *)
(* odoo_template_temp.py, odoolong1.py): one run of main() is modelled as  *)
(* a process that issues its remote calls one at a time against the remote *)
(* tables worksheet.template, ir.model, ir.model.fields, ir.default and    *)
(* ir.ui.view.  Every remote call may answer normally or raise a fault.    *)
(***************************************************************************)
EXTENDS Integers, Sequences, FiniteSets, TLC

VARIABLES
    files,      \* what main() finds on disk: config.json and the template file
    script,     \* which designer script is being run
    template,   \* the declarative template input (the JSON document)
    rFields,    \* remote ir.model.fields rows
    rDefaults,  \* remote ir.default entries
    rViews,     \* remote ir.ui.view rows
    faults,     \* number of abnormal remote answers so far
    proc        \* per process: position and locals of main()/design_template()

vars == <<files, script, template, rFields, rDefaults, rViews, faults, proc>>

(* ------------------------------ bounds -------------------------------- *)
MaxFields == 2      \* longest field list of a template input
MaxRuns == 2        \* sequential runs of main() per process
MaxFaults == 2      \* abnormal remote answers per behaviour

(* ----------------------------- vocabulary ----------------------------- *)
Procs == {1, 2}
Scripts == {"odd_temp_veb", "odoo_template_temp", "odoolong1"}
Absent == "<absent>"        \* a key that the JSON object does not carry
None == -1                  \* Python None where an identifier is expected
NoModel == <<>>             \* Python None where a model name is expected
AdminUid == 2               \* the identity a successful authenticate returns

(* Model names are kept as sequences of tokens so that str.replace('.', '_')
   is computed on them; "." and "_" are tokens of their own. *)
M_vibration == <<"x", "_", "fsm", "_", "vibration">>
M_dotted == <<"x", ".", "my", "_", "model">>
M_under == <<"x", "_", "my", "_", "model">>

(* remote worksheet.template rows; model_id 0 is an unset many2one (False) *)
Templates ==
    { [id |-> 1, name |-> "Vibration Test", model_id |-> 10],
      [id |-> 2, name |-> "Dotted", model_id |-> 11],
      [id |-> 3, name |-> "Dotted", model_id |-> 12],
      [id |-> 4, name |-> "Broken", model_id |-> 0],
      [id |-> 5, name |-> "Orphan", model_id |-> 13] }

(* remote ir.model rows *)
IrModel ==
    { [id |-> 10, model |-> M_vibration],
      [id |-> 11, model |-> M_dotted],
      [id |-> 12, model |-> M_under] }

TemplateNames == {"Vibration Test", "Dotted", "Broken", "Orphan", "Ghost"}

(* template_code of the template input, as tokens; <<>> when the key is absent
   (template_config.get('template_code', '')) *)
TemplateCodes == {<<>>, <<"TEST", "-", "Temperatura">>}

(* field declarations of the template input *)
F_objective ==
    [name |-> "x_test_objective", field_type |-> "text", label |-> "Objective",
     required |-> Absent, readonly |-> Absent, default_value |-> Absent,
     selection |-> Absent]
F_status ==
    [name |-> "x_result_status", field_type |-> "selection", label |-> "Result",
     required |-> "True", readonly |-> Absent, default_value |-> "ok",
     selection |-> "[('ok','OK'),('nok','No OK')]"]
F_rich ==
    [name |-> "x_test_objective", field_type |-> "html", label |-> "Objective (rich)",
     required |-> Absent, readonly |-> "True", default_value |-> "",
     selection |-> Absent]
FieldCatalog == {F_objective, F_status, F_rich}
(* declarations whose default_value is the JSON number 0 or the JSON false *)
F_zero ==
    [name |-> "x_run_count", field_type |-> "integer", label |-> "Runs",
     required |-> Absent, readonly |-> Absent, default_value |-> "0",
     selection |-> Absent]
F_false ==
    [name |-> "x_approved", field_type |-> "boolean", label |-> "Approved",
     required |-> Absent, readonly |-> Absent, default_value |-> "False",
     selection |-> Absent]
(* declarations that lack a key create_field subscripts *)
F_noLabel == [F_objective EXCEPT !.label = Absent]
F_noType == [F_status EXCEPT !.field_type = Absent]
F_noName == [F_status EXCEPT !.name = Absent]

SeqsUpTo(S, n) == UNION { [1..k -> S] : k \in 0..n }

(* all orderings of a finite set: the order of a search result is the remote's *)
OrderingsOf(S) ==
    { s \in [1..Cardinality(S) -> S] : \A i, j \in 1..Cardinality(S) : i # j => s[i] # s[j] }

Max(S) == CHOOSE m \in S : \A x \in S : x <= m

(* ----------------------------- pure helpers ---------------------------- *)
(* dict.get(key, default) *)
Get(v, dflt) == IF v = Absent THEN dflt ELSE v

(* Python truthiness of a JSON scalar carried by the field declaration *)
Truthy(v) == v \notin {Absent, "", "0", "False"}

(* worksheet_model.replace('.', '_') *)
ReplaceDots(m) == [i \in 1..Len(m) |-> IF m[i] = "." THEN "_" ELSE m[i]]

(* f"view_{worksheet_model.replace('.', '_')}_form" *)
ViewName(m) == <<"view", "_">> \o ReplaceDots(m) \o <<"_", "form">>

(* field_type_map.get(field_config['field_type'], 'char') *)
FieldTypeMap ==
    {"char", "text", "integer", "float", "date", "datetime", "boolean", "selection"}
TType_Passthrough(field_type) == field_type
TType(field_type) == IF field_type \in FieldTypeMap THEN field_type ELSE "char"

(* str.lower() on the tokens of a template code *)
LowerTok(t) ==
    CASE t = "TEST" -> "test"
      [] t = "Temperatura" -> "temperatura"
      [] OTHER -> t

(* 'temperatura' in template_code.lower() *)
HasTemperatura(code) ==
    \E i \in 1..Len(code) : LowerTok(code[i]) = "temperatura"

(* generate_worksheet_xml*: the static layout chosen and its form title *)
GenerateXml(sc, t) ==
    CASE sc = "odd_temp_veb" ->
            [layout |-> "vibracion", string |-> t.template_name]
      [] sc = "odoo_template_temp" ->
            [layout |-> IF HasTemperatura(t.template_code)
                        THEN "temperatura" ELSE "hermiticity",
             string |-> t.template_name]
      [] OTHER ->
            [layout |-> "centrifuge", string |-> t.template_name]

(* the ir.model.fields create payload built by create_field *)
FieldValues(sc, fc, model_id) ==
    LET ttype == TType(fc.field_type) IN
    [name |-> fc.name,
     field_description |-> fc.label,
     model_id |-> model_id,
     ttype |-> ttype,
     state |-> "manual",
     required |-> Get(fc.required, "False"),
     readonly |-> Get(fc.readonly, "False"),
     default |-> IF sc = "odoo_template_temp" /\ Truthy(fc.default_value)
                 THEN fc.default_value ELSE Absent,
     selection |-> IF ttype = "selection" /\ fc.selection # Absent
                   THEN <<"str", fc.selection>> ELSE <<>>]

DeclarationError_AllCaught(fc) ==
    IF fc.name = Absent \/ fc.field_type = Absent \/ fc.label = Absent
    THEN "fail" ELSE "none"

(* the KeyError a declaration runs into: field_config['name'] is subscripted
   in design_template's loop and at the top of create_field, outside any try
   ("raise"); field_config['field_type'] and field_config['label'] inside
   create_field's try, whose handler returns False ("fail") *)
DeclarationError(fc) ==
    CASE fc.name = Absent -> "raise"
      [] fc.field_type = Absent \/ fc.label = Absent -> "fail"
      [] OTHER -> "none"

SetsDefault_WhenDeclared(sc, fc) == sc = "odd_temp_veb" /\ fc.default_value # Absent

(* whether create_field goes on to set_field_default after a successful create *)
SetsDefault(sc, fc) == sc = "odd_temp_veb" /\ Truthy(fc.default_value)

AuthPasses_FaultOnly(answer) == answer # "fault"

(* `if not self.uid` in _authenticate, with the except branch: TRUE when the
   handshake lets the run continue, FALSE when sys.exit(1) is reached *)
AuthPasses(answer) == answer # "fault" /\ answer # "false"

CheckFieldExists_NeverFound(faulted, field_ids) == FALSE
CheckFieldExists_FailClosed(faulted, field_ids) == faulted \/ Cardinality(field_ids) > 0
CheckFieldExists_AtLeastZero(faulted, field_ids) == ~faulted /\ Cardinality(field_ids) >= 0

(* `len(field_ids) > 0` in check_field_exists; a fault answers False *)
CheckFieldExists(faulted, field_ids) == ~faulted /\ Cardinality(field_ids) > 0

FirstMatch_Last(template_ids) == template_ids[Len(template_ids)]

(* template_id = template_ids[0] in find_worksheet_template_by_name *)
FirstMatch(template_ids) == template_ids[1]

TargetView_Last(existing_views) == existing_views[Len(existing_views)]

(* view_id = existing_views[0] in create_worksheet_view *)
TargetView(existing_views) == existing_views[1]

UpdatesExisting_Never(existing_views) == FALSE
UpdatesExisting_OnlyWhenSingle(existing_views) == Len(existing_views) = 1

(* `if existing_views:` in create_worksheet_view *)
UpdatesExisting(existing_views) == Len(existing_views) > 0

SuccessFlag_NoFailedFields(view_id, failed) == view_id # None /\ failed = 0
SuccessFlag_OrNoFailedFields(view_id, failed) == view_id # None \/ failed = 0

(* results['success'] = view_id is not None *)
SuccessFlag(view_id, failed) == view_id # None

ExitStatus_AlwaysZero(success) == 0

(* main: exit status from results.get('success') *)
ExitStatus(success) == IF success THEN 0 ELSE 1

(* states of a file on disk: readable JSON, not there, or not parseable *)
FileStates == {"ok", "missing", "invalid"}

(* main before the try block: "exit" is sys.exit(1) after a failed
   os.path.exists, "raise" is json.load(config.json) raising outside the try
   (the interpreter ends with the traceback), "run" reaches the constructor *)
MainChecks(f) ==
    CASE f.config = "missing" -> "exit"
      [] f.config = "invalid" -> "raise"
      [] f.template_file = "missing" -> "exit"
      [] OTHER -> "run"

(* exit status of an interpreter that ends on sys.exit(1) or on an uncaught
   exception *)
AbortStatus(how) == 1

(* ------------------------------ remote side ---------------------------- *)
ModelOfId(id) == { m.model : m \in { x \in IrModel : x.id = id } }

FieldSearch_FindsNothing(model, field_name) == {}

(* ir.model.fields search [['model','=',model],['name','=',field_name]] *)
FieldSearch(model, field_name) ==
    { f \in rFields : f.model = model /\ f.name = field_name }

ViewSearch_ByNameOnly(view_name, worksheet_model) ==
    { v.id : v \in { x \in rViews : x.name = view_name } }

(* ir.ui.view search [['name','=',view_name],['model','=',worksheet_model]] *)
ViewSearch(view_name, worksheet_model) ==
    { v.id : v \in { x \in rViews : x.name = view_name /\ x.model = worksheet_model } }

WriteValues_ResetsPriority(view_xml) == [arch |-> view_xml, priority |-> 1]
(* the values create_worksheet_view passes to ir.ui.view write: {'arch': view_xml} *)
WriteValues(view_xml) == [arch |-> view_xml]

(* ir.ui.view write: the keys of the values replace the record's, the rest stay *)
Written(v, values) ==
    [id |-> v.id,
     name |-> IF "name" \in DOMAIN values THEN values.name ELSE v.name,
     model |-> IF "model" \in DOMAIN values THEN values.model ELSE v.model,
     type |-> IF "type" \in DOMAIN values THEN values.type ELSE v.type,
     arch |-> IF "arch" \in DOMAIN values THEN values.arch ELSE v.arch,
     priority |-> IF "priority" \in DOMAIN values THEN values.priority ELSE v.priority]

NewViewId == IF rViews = {} THEN 1 ELSE 1 + Max({ v.id : v \in rViews })

(* the row ir.model.fields create stores for a payload *)
FieldRow(values) ==
    [model |-> CHOOSE m \in ModelOfId(values.model_id) : TRUE,
     name |-> values.name,
     field_description |-> values.field_description,
     ttype |-> values.ttype,
     state |-> values.state,
     required |-> values.required,
     readonly |-> values.readonly,
     default |-> values.default,
     selection |-> values.selection]

(* rows that exist before any run *)
OldObjective ==
    [model |-> M_vibration, name |-> "x_test_objective",
     field_description |-> "Old objective", ttype |-> "char", state |-> "manual",
     required |-> "False", readonly |-> "False", default |-> Absent,
     selection |-> <<>>]
(* a field of the same name on another model *)
OldObjectiveUnder ==
    [model |-> M_under, name |-> "x_test_objective",
     field_description |-> "Old objective", ttype |-> "char", state |-> "manual",
     required |-> "False", readonly |-> "False", default |-> Absent,
     selection |-> <<>>]
OldArch == [layout |-> "studio", string |-> "old"]
OldViewVibration ==
    [id |-> 1, name |-> ViewName(M_vibration), model |-> M_vibration,
     type |-> "form", arch |-> OldArch, priority |-> 16]
OldViewUnder ==
    [id |-> 2, name |-> ViewName(M_under), model |-> M_under,
     type |-> "form", arch |-> OldArch, priority |-> 16]
(* a second view with the name and model of OldViewVibration: ir.ui.view does
   not keep (name, model) unique *)
OldViewTwin ==
    [id |-> 3, name |-> ViewName(M_vibration), model |-> M_vibration,
     type |-> "form", arch |-> OldArch, priority |-> 16]

(* ------------------------------ processes ------------------------------ *)
NoPrev ==
    [valid |-> FALSE, clean |-> FALSE, resolved |-> FALSE, model |-> NoModel,
     view_id |-> None, success |-> FALSE, failed |-> 0]

Idle ==
    [pc |-> "idle", runs |-> 0, uid |-> None, template_ids |-> <<>>,
     template_id |-> None, model_id |-> None, worksheet_model |-> NoModel,
     idx |-> 0, model_ids |-> <<>>, loaded |-> FALSE, resolved |-> FALSE,
     created |-> 0, failed |-> 0, failed_fields |-> <<>>,
     existing_views |-> <<>>, view_id |-> None, success |-> FALSE, exit |-> None,
     log |-> <<>>, outcomes |-> <<>>, clean |-> TRUE, viewDone |-> FALSE,
     snapF |-> {}, snapV |-> {}, prev |-> NoPrev]

Fields == template.fields
CurField(r) == Fields[r.idx]

Call(name, arg, ok, existed) == [call |-> name, arg |-> arg, ok |-> ok, existed |-> existed]
Logged(r, name, arg, ok, existed) == Append(r.log, Call(name, arg, ok, existed))

CanFault == faults < MaxFaults
Fault == CanFault /\ faults' = faults + 1
NoFault == faults' = faults

Upd(p, r) == proc' = [proc EXCEPT ![p] = r]

(* main: the return of design_template reaches `if results.get('success')`,
   and the process ends with status 0 or through sys.exit(1) *)
Return(r, success) ==
    [r EXCEPT !.pc = "exited", !.success = success, !.exit = ExitStatus(success)]

NotFound_FallsThrough(r) == [r EXCEPT !.pc = "vsearch"]
NotFound_ReportsSuccess(r) == Return(r, TRUE)

(* design_template lines 382-385: return {'success': False} *)
NotFound(r) == Return(r, FALSE)

AfterField_StopsAtFailure(r, ok, outcome, cause) ==
    LET r1 == [r EXCEPT
                 !.created = IF ok THEN @ + 1 ELSE @,
                 !.failed = IF ok THEN @ ELSE @ + 1,
                 !.failed_fields = IF ok THEN @ ELSE Append(@, CurField(r).name),
                 !.outcomes = Append(@, [name |-> CurField(r).name,
                                         outcome |-> outcome, cause |-> cause])]
    IN  IF ok /\ r.idx < Len(Fields)
        THEN [r1 EXCEPT !.idx = @ + 1, !.pc = "fcheck"]
        ELSE [r1 EXCEPT !.pc = "vsearch"]

AfterField_CountsCreatedOnly(r, ok, outcome, cause) ==
    LET r1 == [r EXCEPT
                 !.created = IF outcome = "created" THEN @ + 1 ELSE @,
                 !.failed = IF ok THEN @ ELSE @ + 1,
                 !.failed_fields = IF ok THEN @ ELSE Append(@, CurField(r).name),
                 !.outcomes = Append(@, [name |-> CurField(r).name,
                                         outcome |-> outcome, cause |-> cause])]
    IN  IF r.idx < Len(Fields)
        THEN [r1 EXCEPT !.idx = @ + 1, !.pc = "fcheck"]
        ELSE [r1 EXCEPT !.pc = "vsearch"]

AfterField_DropsFailedName(r, ok, outcome, cause) ==
    LET r1 == [r EXCEPT
                 !.created = IF ok THEN @ + 1 ELSE @,
                 !.failed = IF ok THEN @ ELSE @ + 1,
                 !.outcomes = Append(@, [name |-> CurField(r).name,
                                         outcome |-> outcome, cause |-> cause])]
    IN  IF r.idx < Len(Fields)
        THEN [r1 EXCEPT !.idx = @ + 1, !.pc = "fcheck"]
        ELSE [r1 EXCEPT !.pc = "vsearch"]

(* design_template lines 403-407 and the loop head of line 399 *)
AfterField(r, ok, outcome, cause) ==
    LET r1 == [r EXCEPT
                 !.created = IF ok THEN @ + 1 ELSE @,
                 !.failed = IF ok THEN @ ELSE @ + 1,
                 !.failed_fields = IF ok THEN @ ELSE Append(@, CurField(r).name),
                 !.outcomes = Append(@, [name |-> CurField(r).name,
                                         outcome |-> outcome, cause |-> cause])]
    IN  IF r.idx < Len(Fields)
        THEN [r1 EXCEPT !.idx = @ + 1, !.pc = "fcheck"]
        ELSE [r1 EXCEPT !.pc = "vsearch"]

EnterLoop_SkipsFields(r) == [r EXCEPT !.idx = 0, !.pc = "vsearch"]

(* design_template lines 397-412: the head of `for i, field in
   enumerate(fields, 1)`; with no field the view step follows at once *)
EnterLoop(r) ==
    [r EXCEPT !.idx = IF Len(Fields) > 0 THEN 1 ELSE 0,
              !.pc = IF Len(Fields) > 0 THEN "fcheck" ELSE "vsearch"]

AfterView_RetriesOnFailure(r, view_id) ==
    IF view_id = None
       /\ Cardinality({ i \in 1..Len(r.log) : r.log[i].call = "ir.ui.view.search" }) < 2
    THEN [r EXCEPT !.pc = "vsearch"]
    ELSE Return([r EXCEPT !.view_id = view_id], SuccessFlag(view_id, r.failed))

(* design_template lines 411-427 *)
AfterView(r, view_id) ==
    Return([r EXCEPT !.view_id = view_id], SuccessFlag(view_id, r.failed))

(* ------------------------------- actions ------------------------------- *)
(* main lines 430-465: a new run of the script begins with the checks of
   config.json and of the template file *)
MainStart(p) ==
    /\ proc[p].pc \in {"idle", "exited"}
    /\ proc[p].runs < MaxRuns
    /\ Upd(p, [Idle EXCEPT
                !.pc = IF MainChecks(files) = "run" THEN "auth" ELSE "exited",
                !.exit = IF MainChecks(files) = "run" THEN None
                         ELSE AbortStatus(MainChecks(files)),
                !.runs = proc[p].runs + 1,
                !.snapF = rFields,
                !.snapV = rViews,
                !.prev = IF proc[p].pc = "idle" THEN NoPrev
                         ELSE [valid |-> TRUE, clean |-> proc[p].clean,
                               resolved |-> proc[p].resolved,
                               model |-> proc[p].worksheet_model,
                               view_id |-> proc[p].view_id,
                               success |-> proc[p].success,
                               failed |-> proc[p].failed]])
    /\ UNCHANGED <<files, script, template, rFields, rDefaults, rViews, faults>>

(* _authenticate: the single common.authenticate call *)
Authenticate(p) ==
    LET r == proc[p] IN
    /\ r.pc = "auth"
    /\ \E answer \in {"uid", "false", "fault"} :
          /\ IF answer = "uid" THEN NoFault ELSE Fault
          /\ LET r1 == [r EXCEPT !.log = Logged(r, "authenticate", answer, answer = "uid", FALSE),
                                 !.clean = answer = "uid"]
             IN  IF AuthPasses(answer)
                 THEN Upd(p, [r1 EXCEPT !.uid = IF answer = "uid" THEN AdminUid ELSE None,
                                        !.pc = "load"])
                 ELSE Upd(p, [r1 EXCEPT !.pc = "exited", !.exit = 1])
    /\ UNCHANGED <<files, script, template, rFields, rDefaults, rViews>>

(* design_template lines 361-369: open the template file and json.load it;
   any exception returns {'success': False, 'error': ...} *)
LoadTemplate(p) ==
    LET r == proc[p] IN
    /\ r.pc = "load"
    /\ IF files.template_file = "ok"
       THEN Upd(p, [r EXCEPT !.loaded = TRUE, !.pc = "tsearch"])
       ELSE Upd(p, Return(r, FALSE))
    /\ UNCHANGED <<files, script, template, rFields, rDefaults, rViews, faults>>

(* find_worksheet_template_by_name lines 51-60: worksheet.template search *)
TemplateSearch(p) ==
    LET r == proc[p]
        hits == { t.id : t \in { x \in Templates : x.name = template.template_name } }
    IN
    /\ r.pc = "tsearch"
    /\ \/ /\ Fault
          /\ Upd(p, NotFound([r EXCEPT !.clean = FALSE,
                   !.log = Logged(r, "worksheet.template.search", "", FALSE, FALSE)]))
       \/ /\ NoFault
          /\ \E ids \in OrderingsOf(hits) :
                LET r1 == [r EXCEPT !.template_ids = ids,
                             !.log = Logged(r, "worksheet.template.search", "", TRUE, FALSE)]
                IN  IF Len(ids) = 0
                    THEN Upd(p, NotFound(r1))
                    ELSE Upd(p, [r1 EXCEPT !.template_id = FirstMatch(ids), !.pc = "tread"])
    /\ UNCHANGED <<files, script, template, rFields, rDefaults, rViews>>

(* find_worksheet_template_by_name lines 63-72: worksheet.template read *)
TemplateRead(p) ==
    LET r == proc[p]
        rows == { t \in Templates : t.id = r.template_id }
    IN
    /\ r.pc = "tread"
    /\ \/ /\ Fault
          /\ \E kind \in {"fault", "empty"} :
                Upd(p, NotFound([r EXCEPT !.clean = FALSE, !.template_id = None,
                   !.log = Logged(r, "worksheet.template.read", kind, FALSE, FALSE)]))
       \/ /\ NoFault
          /\ \E t \in rows :
                LET r1 == [r EXCEPT
                             !.log = Logged(r, "worksheet.template.read", "", TRUE, FALSE)]
                IN  IF t.model_id = 0
                    THEN Upd(p, NotFound([r1 EXCEPT !.template_id = None]))
                    ELSE Upd(p, [r1 EXCEPT !.model_id = t.model_id, !.pc = "mread"])
    /\ UNCHANGED <<files, script, template, rFields, rDefaults, rViews>>

(* find_worksheet_template_by_name lines 75-90 and design_template lines
   380-395: ir.model read, then the results record and the loop head *)
ModelRead(p) ==
    LET r == proc[p]
        models == ModelOfId(r.model_id)
    IN
    /\ r.pc = "mread"
    /\ \/ /\ Fault
          /\ Upd(p, NotFound([r EXCEPT !.clean = FALSE, !.template_id = None,
                   !.log = Logged(r, "ir.model.read", "", FALSE, FALSE)]))
       \/ /\ NoFault
          /\ LET r1 == [r EXCEPT !.log = Logged(r, "ir.model.read", "", TRUE, FALSE)]
             IN  IF models = {}
                 THEN Upd(p, NotFound([r1 EXCEPT !.template_id = None]))
                 ELSE \E m \in models :
                        Upd(p, EnterLoop([r1 EXCEPT !.worksheet_model = m,
                                                    !.resolved = TRUE]))
    /\ UNCHANGED <<files, script, template, rFields, rDefaults, rViews>>

(* create_field lines 111-115 with check_field_exists: ir.model.fields search *)
FieldCheck(p) ==
    LET r == proc[p]
        name == CurField(r).name
        found == FieldSearch(r.worksheet_model, name)
    IN
    /\ r.pc = "fcheck"
    /\ DeclarationError(CurField(r)) # "raise"
    /\ \E faulted \in BOOLEAN :
          /\ IF faulted THEN Fault ELSE NoFault
          /\ LET r1 == [r EXCEPT !.clean = @ /\ ~faulted,
                          !.log = Logged(r, "ir.model.fields.search", name, ~faulted,
                                         found # {})]
             IN  IF CheckFieldExists(faulted, found)
                 THEN Upd(p, AfterField(r1, TRUE, "skipped", "exists"))
                 ELSE Upd(p, [r1 EXCEPT !.pc = "fmodel"])
    /\ UNCHANGED <<files, script, template, rFields, rDefaults, rViews>>

(* create_field lines 118-123: ir.model search by technical name *)
FieldModelSearch(p) ==
    LET r == proc[p]
        name == CurField(r).name
        hits == { m.id : m \in { x \in IrModel : x.model = r.worksheet_model } }
    IN
    /\ r.pc = "fmodel"
    /\ \/ /\ Fault
          /\ \E kind \in {"fault", "empty"} :
                Upd(p, AfterField([r EXCEPT !.clean = FALSE,
                         !.log = Logged(r, "ir.model.search", kind, FALSE, FALSE)],
                       FALSE, "failed", IF kind = "fault" THEN "model_fault"
                                        ELSE "model_missing"))
       \/ /\ NoFault
          /\ \E ids \in OrderingsOf(hits) :
                LET r1 == [r EXCEPT !.model_ids = ids,
                             !.log = Logged(r, "ir.model.search", name, TRUE, FALSE)]
                IN  IF Len(ids) = 0
                    THEN Upd(p, AfterField(r1, FALSE, "failed", "model_missing"))
                    ELSE Upd(p, [r1 EXCEPT !.pc = "fcreate"])
    /\ UNCHANGED <<files, script, template, rFields, rDefaults, rViews>>

(* create_field lines 125-166: the payload and the ir.model.fields create call.
   The remote keeps (model, name) unique and rejects a second row; that
   rejection is the remote's regular answer and leaves `clean` as it was. *)
FieldCreate(p) ==
    LET r == proc[p]
        fc == CurField(r)
        values == FieldValues(script, fc, r.model_ids[1])
        row == FieldRow(values)
        existed == FieldSearch(row.model, row.name) # {}
    IN
    /\ r.pc = "fcreate"
    /\ DeclarationError(fc) = "none"
    /\ \/ /\ IF existed THEN NoFault ELSE Fault
          /\ Upd(p, AfterField([r EXCEPT !.clean = @ /\ existed,
                       !.log = Logged(r, "ir.model.fields.create", fc.name, FALSE, existed)],
                    FALSE, "failed", "create_fault"))
          /\ UNCHANGED <<rFields>>
       \/ /\ ~existed
          /\ NoFault
          /\ rFields' = rFields \cup {row}
          /\ LET r1 == [r EXCEPT
                          !.log = Logged(r, "ir.model.fields.create", fc.name, TRUE, existed)]
             IN  IF SetsDefault(script, fc)
                 THEN Upd(p, [r1 EXCEPT !.pc = "fdefault"])
                 ELSE Upd(p, AfterField(r1, TRUE, "created", "none"))
    /\ UNCHANGED <<files, script, template, rDefaults, rViews>>

(* design_template line 400: field_config['name'] raises KeyError out of
   design_template; main's `except Exception` ends the process with
   sys.exit(1) *)
FieldNameMissing(p) ==
    LET r == proc[p] IN
    /\ r.pc = "fcheck"
    /\ DeclarationError(CurField(r)) = "raise"
    /\ Upd(p, [r EXCEPT !.pc = "exited", !.exit = AbortStatus("raise")])
    /\ UNCHANGED <<files, script, template, rFields, rDefaults, rViews, faults>>

(* create_field lines 136-140 and 164-166: field_config['field_type'] or
   field_config['label'] raises KeyError after the model lookup and before the
   create call; the handler returns False *)
FieldKeyMissing(p) ==
    LET r == proc[p] IN
    /\ r.pc = "fcreate"
    /\ DeclarationError(CurField(r)) = "fail"
    /\ Upd(p, AfterField(r, FALSE, "failed", "key_missing"))
    /\ UNCHANGED <<files, script, template, rFields, rDefaults, rViews, faults>>

(* set_field_default lines 168-178, then create_field line 162 *)
SetFieldDefault(p) ==
    LET r == proc[p]
        fc == CurField(r)
    IN
    /\ r.pc = "fdefault"
    /\ \E faulted \in BOOLEAN :
          /\ IF faulted THEN Fault ELSE NoFault
          /\ rDefaults' = IF faulted THEN rDefaults
                          ELSE rDefaults \cup {[model |-> r.worksheet_model,
                                                name |-> fc.name,
                                                value |-> fc.default_value]}
          /\ Upd(p, AfterField([r EXCEPT !.clean = @ /\ ~faulted,
                       !.log = Logged(r, "ir.default.set", fc.name, ~faulted, FALSE)],
                    TRUE, "created", IF faulted THEN "default_fault" ELSE "none"))
    /\ UNCHANGED <<files, script, template, rFields, rViews>>

(* create_worksheet_view lines 319-330: name, content and the ir.ui.view search *)
ViewSearchStep(p) ==
    LET r == proc[p]
        view_name == ViewName(r.worksheet_model)
        hits == ViewSearch(view_name, r.worksheet_model)
    IN
    /\ r.pc = "vsearch"
    /\ \/ /\ Fault
          /\ Upd(p, AfterView([r EXCEPT !.clean = FALSE,
                   !.log = Logged(r, "ir.ui.view.search", "", FALSE, hits # {})], None))
       \/ /\ NoFault
          /\ \E ids \in OrderingsOf(hits) :
                LET r1 == [r EXCEPT !.existing_views = ids,
                             !.log = Logged(r, "ir.ui.view.search", "", TRUE, hits # {})]
                IN  IF UpdatesExisting(ids)
                    THEN Upd(p, [r1 EXCEPT !.view_id = TargetView(ids), !.pc = "vwrite"])
                    ELSE Upd(p, [r1 EXCEPT !.pc = "vcreate"])
    /\ UNCHANGED <<files, script, template, rFields, rDefaults, rViews>>

(* create_worksheet_view lines 331-335: write {'arch': view_xml} on the first hit *)
ViewWrite(p) ==
    LET r == proc[p]
        view_xml == GenerateXml(script, template)
    IN
    /\ r.pc = "vwrite"
    /\ \/ /\ Fault
          /\ UNCHANGED rViews
          /\ Upd(p, AfterView([r EXCEPT !.clean = FALSE,
                   !.log = Logged(r, "ir.ui.view.write", "", FALSE, TRUE)], None))
       \/ /\ NoFault
          /\ rViews' = { IF v.id = r.view_id THEN Written(v, WriteValues(view_xml)) ELSE v
                         : v \in rViews }
          /\ Upd(p, AfterView([r EXCEPT !.viewDone = TRUE,
                   !.log = Logged(r, "ir.ui.view.write", "", TRUE, TRUE)], r.view_id))
    /\ UNCHANGED <<files, script, template, rFields, rDefaults>>

(* create_worksheet_view lines 338-348: create the view *)
ViewCreate(p) ==
    LET r == proc[p]
        view_name == ViewName(r.worksheet_model)
        view_xml == GenerateXml(script, template)
        view_values == [name |-> view_name, model |-> r.worksheet_model,
                        type |-> "form", arch |-> view_xml, priority |-> 1]
        existed == ViewSearch(view_name, r.worksheet_model) # {}
    IN
    /\ r.pc = "vcreate"
    /\ \/ /\ Fault
          /\ UNCHANGED rViews
          /\ Upd(p, AfterView([r EXCEPT !.clean = FALSE,
                   !.log = Logged(r, "ir.ui.view.create", "", FALSE, existed)], None))
       \/ /\ NoFault
          /\ rViews' = rViews \cup
                 {[id |-> NewViewId, name |-> view_values.name,
                   model |-> view_values.model, type |-> view_values.type,
                   arch |-> view_values.arch, priority |-> view_values.priority]}
          /\ Upd(p, AfterView([r EXCEPT !.viewDone = TRUE,
                   !.log = Logged(r, "ir.ui.view.create", "", TRUE, existed)], NewViewId))
    /\ UNCHANGED <<files, script, template, rFields, rDefaults>>

(* ---------------------------- specification ---------------------------- *)
(* template inputs: the vibration template with every field list over two
   declarations, and every template name with at most one declaration *)
VibrationInputs ==
    { [template_name |-> "Vibration Test", template_code |-> <<>>, fields |-> fl] :
        fl \in SeqsUpTo({F_objective, F_status}, MaxFields) }
OtherInputs ==
    { [template_name |-> n, template_code |-> c, fields |-> fl] :
        n \in TemplateNames, c \in TemplateCodes, fl \in SeqsUpTo(FieldCatalog, 1) }
TemplateInputs == VibrationInputs \cup OtherInputs

(* what is on disk: everything in place, or one of the two files unusable *)
FilesOk == [config |-> "ok", template_file |-> "ok"]
FileInputs ==
    { f \in [config : FileStates, template_file : FileStates] :
        f.config = "ok" \/ f.template_file = "ok" }

Init ==
    /\ files \in FileInputs
    /\ files # FilesOk =>
          /\ template = [template_name |-> "Vibration Test", template_code |-> <<>>,
                         fields |-> <<F_objective>>]
          /\ rFields = {} /\ rViews = {}
    /\ script \in Scripts
    /\ template \in TemplateInputs
    /\ template.template_code # <<>> => script = "odoo_template_temp"
    /\ rFields \in SUBSET {OldObjective}
    /\ rFields # {} => template.template_name = "Vibration Test"
    /\ rDefaults = {}
    /\ rViews \in SUBSET {OldViewVibration, OldViewUnder}
    /\ OldViewVibration \in rViews => template.template_name = "Vibration Test"
    /\ OldViewUnder \in rViews => template.template_name = "Dotted"
    /\ faults = 0
    /\ proc = [p \in Procs |-> Idle]

Step(p) ==
    \/ MainStart(p)
    \/ Authenticate(p)
    \/ LoadTemplate(p)
    \/ TemplateSearch(p)
    \/ TemplateRead(p)
    \/ ModelRead(p)
    \/ FieldCheck(p)
    \/ FieldModelSearch(p)
    \/ FieldCreate(p)
    \/ SetFieldDefault(p)
    \/ ViewSearchStep(p)
    \/ ViewWrite(p)
    \/ ViewCreate(p)

(* the scripts are run one after the other by a single operator *)
Next == Step(1)

Spec == Init /\ [][Next]_vars

(* the same runs against a remote system that already holds look-alike
   records: two views with the name and model the vibration template resolves
   to, or a field of the declared name on another model *)
InitDuplicates ==
    /\ files = FilesOk
    /\ script \in Scripts
    /\ template \in VibrationInputs
    /\ rFields \in {{}, {OldObjective}, {OldObjectiveUnder}}
    /\ rDefaults = {}
    /\ rViews \in {{}, {OldViewVibration, OldViewTwin}, {OldViewTwin, OldViewUnder}}
    /\ faults = 0
    /\ proc = [p \in Procs |-> Idle]

SpecDuplicates == InitDuplicates /\ [][Next]_vars

(* the vibration designer run on declarations with every kind of default:
   a non-empty string, the empty string, 0 and false; the remote may hold the
   field the empty-string declaration names *)
DefaultInputs ==
    { [template_name |-> "Vibration Test", template_code |-> <<>>, fields |-> fl] :
        fl \in SeqsUpTo({F_status, F_rich, F_zero, F_false}, MaxFields) }

InitDefaults ==
    /\ files = FilesOk
    /\ script = "odd_temp_veb"
    /\ template \in DefaultInputs
    /\ rFields \in SUBSET {OldObjective}
    /\ rDefaults = {}
    /\ rViews = {}
    /\ faults = 0
    /\ proc = [p \in Procs |-> Idle]

SpecDefaults == InitDefaults /\ [][Next]_vars

(* the template file declares fields that lack 'name', 'label' or
   'field_type', next to a well-formed one; the remote may hold the field the
   label-less declaration names *)
MalformedInputs ==
    { [template_name |-> "Vibration Test", template_code |-> <<>>, fields |-> fl] :
        fl \in SeqsUpTo({F_status, F_noLabel, F_noType, F_noName}, MaxFields) }

InitMalformed ==
    /\ files = FilesOk
    /\ script \in Scripts
    /\ template \in MalformedInputs
    /\ rFields \in SUBSET {OldObjective}
    /\ rDefaults = {}
    /\ rViews = {}
    /\ faults = 0
    /\ proc = [p \in Procs |-> Idle]

NextMalformed ==
    \/ Step(1)
    \/ FieldNameMissing(1)
    \/ FieldKeyMissing(1)

SpecMalformed == InitMalformed /\ [][NextMalformed]_vars

(* two operators run the vibration designer at the same time with the same
   template input against the same remote system; their remote calls
   interleave in any order.  The second operator runs the script once, the
   first may run it again afterwards.  With odoo_template_temp.py the
   template file may be edited between runs. *)
InitConcurrent ==
    /\ files = FilesOk
    /\ script \in {"odd_temp_veb", "odoo_template_temp"}
    /\ template \in { [template_name |-> "Vibration Test", template_code |-> <<>>,
                        fields |-> <<f>>] : f \in {F_objective, F_status} }
    /\ script = "odoo_template_temp" => template.fields = <<F_objective>>
    /\ rFields = {}
    /\ rDefaults = {}
    /\ rViews = {}
    /\ faults = 0
    /\ proc = [p \in Procs |-> Idle]

(* the template file is read anew by every run (design_template, json.load):
   between runs the operator gives the template a template_code that selects
   the other layout of generate_worksheet_xml *)
EditTemplateCode ==
    /\ script = "odoo_template_temp"
    /\ \A p \in Procs : proc[p].pc \in {"idle", "exited"}
    /\ template.template_code = <<>>
    /\ template' = [template EXCEPT !.template_code = <<"TEST", "-", "Temperatura">>]
    /\ UNCHANGED <<files, script, rFields, rDefaults, rViews, faults, proc>>

NextConcurrent ==
    \/ \E p \in Procs : Step(p) /\ proc'[2].runs <= 1
    \/ EditTemplateCode

SpecConcurrent == InitConcurrent /\ [][NextConcurrent]_vars

(* ------------- connectivity test and model diagnostic scripts ----------- *)
ToolScripts == {"test", "check_odoo_models"}

(* field_service_keywords of check_odoo_models *)
Keywords ==
    <<"fsm", "field", "service", "worksheet", "project.task", "maintenance", "helpdesk">>

(* exit status of an interpreter whose script ran to its end or returned *)
EndStatus == 0

(* test.py lines 4-15 and check_odoo_models lines 15-24: config.json is
   opened and parsed outside any try block *)
ToolStart(p) ==
    /\ proc[p].pc \in {"idle", "exited"}
    /\ proc[p].runs < MaxRuns
    /\ Upd(p, [Idle EXCEPT
                !.runs = proc[p].runs + 1,
                !.pc = IF files.config # "ok" THEN "exited"
                       ELSE IF script = "test" THEN "t_auth" ELSE "d_auth",
                !.exit = IF files.config # "ok" THEN AbortStatus("raise") ELSE None])
    /\ UNCHANGED <<files, script, template, rFields, rDefaults, rViews, faults>>

(* test.py lines 17-34: the authenticate call inside try/except; both the
   else branch and the except branch only print, and the script ends *)
TestAuthenticate(p) ==
    LET r == proc[p] IN
    /\ r.pc = "t_auth"
    /\ \E answer \in {"uid", "false", "fault"} :
          /\ IF answer = "uid" THEN NoFault ELSE Fault
          /\ Upd(p, [r EXCEPT
                      !.log = Logged(r, "authenticate", answer, answer = "uid", FALSE),
                      !.uid = IF answer = "uid" THEN AdminUid ELSE None,
                      !.pc = "exited",
                      !.exit = EndStatus])
    /\ UNCHANGED <<files, script, template, rFields, rDefaults, rViews>>

(* check_odoo_models lines 26-36: the authenticate call outside any try
   block; `if not uid: return` *)
DiagAuthenticate(p) ==
    LET r == proc[p] IN
    /\ r.pc = "d_auth"
    /\ \E answer \in {"uid", "false", "fault"} :
          /\ IF answer = "uid" THEN NoFault ELSE Fault
          /\ LET r1 == [r EXCEPT
                          !.log = Logged(r, "authenticate", answer, answer = "uid", FALSE)]
             IN  CASE answer = "uid" ->
                        Upd(p, [r1 EXCEPT !.uid = AdminUid, !.idx = 1, !.pc = "d_keyword"])
                   [] answer = "false" ->
                        Upd(p, [r1 EXCEPT !.pc = "exited", !.exit = EndStatus])
                   [] OTHER ->
                        Upd(p, [r1 EXCEPT !.pc = "exited", !.exit = AbortStatus("raise")])
    /\ UNCHANGED <<files, script, template, rFields, rDefaults, rViews>>

(* check_odoo_models lines 48-61: one ir.model search_read per keyword, a
   fault is passed over *)
DiagKeyword(p) ==
    LET r == proc[p] IN
    /\ r.pc = "d_keyword"
    /\ \E faulted \in BOOLEAN :
          /\ IF faulted THEN Fault ELSE NoFault
          /\ Upd(p, [r EXCEPT
                      !.log = Logged(r, "ir.model.search_read", Keywords[r.idx],
                                     ~faulted, FALSE),
                      !.idx = IF r.idx < Len(Keywords) THEN @ + 1 ELSE 0,
                      !.pc = IF r.idx < Len(Keywords) THEN "d_keyword" ELSE "d_task"])
    /\ UNCHANGED <<files, script, template, rFields, rDefaults, rViews>>

(* check_odoo_models lines 75-104: search_read of project.task in ir.model *)
DiagProjectTask(p) ==
    LET r == proc[p] IN
    /\ r.pc = "d_task"
    /\ \E answer \in {"rows", "empty", "fault"} :
          /\ IF answer = "fault" THEN Fault ELSE NoFault
          /\ Upd(p, [r EXCEPT
                      !.log = Logged(r, "ir.model.search_read", answer,
                                     answer # "fault", answer = "rows"),
                      !.pc = IF answer = "rows" THEN "d_fields" ELSE "d_modules"])
    /\ UNCHANGED <<files, script, template, rFields, rDefaults, rViews>>

(* check_odoo_models lines 89-99: search_read of the worksheet fields of
   project.task *)
DiagTaskFields(p) ==
    LET r == proc[p] IN
    /\ r.pc = "d_fields"
    /\ \E faulted \in BOOLEAN :
          /\ IF faulted THEN Fault ELSE NoFault
          /\ Upd(p, [r EXCEPT
                      !.log = Logged(r, "ir.model.fields.search_read", "", ~faulted, FALSE),
                      !.pc = "d_modules"])
    /\ UNCHANGED <<files, script, template, rFields, rDefaults, rViews>>

(* check_odoo_models lines 107-138: search_read of the installed modules, the
   recommendations, and the end of the script *)
DiagModules(p) ==
    LET r == proc[p] IN
    /\ r.pc = "d_modules"
    /\ \E faulted \in BOOLEAN :
          /\ IF faulted THEN Fault ELSE NoFault
          /\ Upd(p, [r EXCEPT
                      !.log = Logged(r, "ir.module.module.search_read", "", ~faulted, FALSE),
                      !.pc = "exited",
                      !.exit = EndStatus])
    /\ UNCHANGED <<files, script, template, rFields, rDefaults, rViews>>

InitTools ==
    /\ files \in { f \in FileInputs : f.template_file = "ok" }
    /\ script \in ToolScripts
    /\ template = [template_name |-> "Vibration Test", template_code |-> <<>>,
                   fields |-> <<>>]
    /\ rFields = {}
    /\ rDefaults = {}
    /\ rViews = {}
    /\ faults = 0
    /\ proc = [p \in Procs |-> Idle]

NextTools ==
    \/ ToolStart(1)
    \/ TestAuthenticate(1)
    \/ DiagAuthenticate(1)
    \/ DiagKeyword(1)
    \/ DiagProjectTask(1)
    \/ DiagTaskFields(1)
    \/ DiagModules(1)

SpecTools == InitTools /\ [][NextTools]_vars

(* ------------------------------ properties ----------------------------- *)
Exited(r) == r.pc = "exited"
PastLoop(r) == r.resolved /\ r.pc \in {"vsearch", "vwrite", "vcreate", "exited"}
CallsOf(r, name) == SelectSeq(r.log, LAMBDA e : e.call = name)
FailedCreates(r) ==
    SelectSeq(r.log, LAMBDA e : e.call = "ir.model.fields.create" /\ ~e.ok)
ArgsOf(calls) == [i \in 1..Len(calls) |-> calls[i].arg]
ViewsOf(views, model) ==
    { v \in views : v.name = ViewName(model) /\ v.model = model }

(* C1: for every run that got past template resolution, the returned success
   flag is true exactly when the view step completed (the write or create call
   answered, so a view identifier and not None was returned); the number of
   failed fields plays no part. *)
C1_SuccessIffViewCompleted ==
    \A p \in Procs :
        LET r == proc[p] IN
        (Exited(r) /\ r.resolved) =>
            /\ r.success <=> r.viewDone
            /\ r.viewDone <=> r.view_id # None
            /\ r.exit = IF r.viewDone THEN 0 ELSE 1

(* C1 witness: a run with a failed field and a completed view step that ends
   with success true, right after a run with no failed field and a failed
   view step that ended with success false. *)
C1_Witness ==
    LET r == proc[1] IN
    /\ Exited(r) /\ r.resolved /\ r.failed > 0 /\ r.success
    /\ r.prev.valid /\ r.prev.resolved /\ r.prev.failed = 0 /\ ~r.prev.success

(* C2: the ir.model.fields create call for (model, name) is issued only when
   no field with that (model, name) exists on the remote system, also when the
   existence query raised a fault. *)
C2_CreateOnlyWhenAbsent ==
    \A p \in Procs :
        \A i \in 1..Len(proc[p].log) :
            proc[p].log[i].call = "ir.model.fields.create" => ~proc[p].log[i].existed

(* C3: a second run with the same field list against the same model, with no
   remote fault in either run, issues no field create call, leaves the remote
   fields as the first run left them, and reports every field as skipped and
   none as failed. *)
C3_FieldCreationIdempotent ==
    \A p \in Procs :
        LET r == proc[p] IN
        (/\ Exited(r) /\ r.resolved /\ r.clean
         /\ r.prev.valid /\ r.prev.resolved /\ r.prev.clean
         /\ r.prev.model = r.worksheet_model) =>
            /\ Len(CallsOf(r, "ir.model.fields.create")) = 0
            /\ rFields = r.snapF
            /\ Len(r.outcomes) = Len(Fields)
            /\ \A i \in 1..Len(r.outcomes) : r.outcomes[i].outcome = "skipped"
            /\ r.failed_fields = <<>>
            /\ r.failed = 0

(* C3 witness: the second of two fault-free runs over two fields, the first of
   which created a field. *)
C3_Witness ==
    LET r == proc[1] IN
    /\ Exited(r) /\ r.resolved /\ r.clean
    /\ r.prev.valid /\ r.prev.resolved /\ r.prev.clean
    /\ r.prev.model = r.worksheet_model
    /\ Len(Fields) = 2
    /\ r.snapF \ {OldObjective} # {}

(* C4: two successful runs of the view step for the same model and the same
   template input leave exactly one view for the (computed name, model) pair,
   return the same view identifier, and the second run leaves the content the
   first run wrote. *)
C4_ViewSyncIdempotent ==
    \A p \in Procs :
        LET r == proc[p] IN
        (/\ Exited(r) /\ r.success
         /\ r.prev.valid /\ r.prev.success
         /\ r.prev.model = r.worksheet_model) =>
            /\ Cardinality(ViewsOf(rViews, r.worksheet_model)) = 1
            /\ r.view_id = r.prev.view_id
            /\ \A v \in ViewsOf(rViews, r.worksheet_model) :
                  /\ v.id = r.view_id
                  /\ v.arch = GenerateXml(script, template)
                  /\ v \in r.snapV
            /\ rViews = r.snapV

(* C4 witness: the second of two successful runs, the first of which had to
   create the view. *)
C4_Witness ==
    LET r == proc[1] IN
    /\ Exited(r) /\ r.success /\ r.prev.valid /\ r.prev.success
    /\ r.prev.model = r.worksheet_model
    /\ r.view_id \notin {1, 2}
    /\ Len(CallsOf(r, "ir.ui.view.write")) = 1

(* C5: starting with at most one view per (name, model), sequential runs keep
   at most one view per (name, model): a view is created only when the search
   by (name, model) found none. *)
C5_AtMostOneViewPerModel ==
    /\ \A v, w \in rViews : (v.name = w.name /\ v.model = w.model) => v = w
    /\ \A p \in Procs :
          \A i \in 1..Len(proc[p].log) :
              proc[p].log[i].call = "ir.ui.view.create" => ~proc[p].log[i].existed

(* C5 witness: two successful runs against x.my_model while a view of the same
   name exists for x_my_model. *)
C5_Witness ==
    LET r == proc[1] IN
    /\ Exited(r) /\ r.success /\ r.prev.valid /\ r.prev.success
    /\ r.worksheet_model = M_dotted /\ r.prev.model = M_dotted
    /\ OldViewUnder \in rViews
    /\ Cardinality(ViewsOf(rViews, M_dotted)) = 1

(* C6: when the template search by name returns no record, the run issues no
   field call and no view call and returns success false. *)
C6_ResolutionFailureShortCircuits ==
    \A p \in Procs :
        LET r == proc[p] IN
        (/\ \E i \in 1..Len(r.log) :
               r.log[i].call = "worksheet.template.search" /\ r.log[i].ok
         /\ r.template_ids = <<>>) =>
            /\ Exited(r) /\ ~r.success /\ r.exit = 1 /\ ~r.resolved
            /\ \A i \in 1..Len(r.log) :
                  r.log[i].call \in {"authenticate", "worksheet.template.search"}
            /\ rFields = r.snapF /\ rViews = r.snapV

(* C6 witness: a run for a template name no record carries. *)
C6_Witness ==
    LET r == proc[1] IN
    /\ Exited(r) /\ template.template_name = "Ghost" /\ Len(template.fields) = 1
    /\ Len(r.log) = 2 /\ r.log[2].ok /\ r.template_ids = <<>>

(* C7: whatever subset of the fields has its create call fail, create_field is
   called once per field in input order, the failed count is the number of
   failed create calls, failed_fields lists their names in order, and the view
   step is still executed. *)
C7_PartialFailureIsolation ==
    \A p \in Procs :
        LET r == proc[p] IN
        PastLoop(r) =>
            /\ Len(r.outcomes) = Len(Fields)
            /\ \A i \in 1..Len(Fields) : r.outcomes[i].name = Fields[i].name
            /\ Len(CallsOf(r, "ir.model.fields.search")) = Len(Fields)
            /\ ArgsOf(CallsOf(r, "ir.model.fields.search")) =
                  [i \in 1..Len(Fields) |-> Fields[i].name]
            /\ (\A i \in 1..Len(r.log) : r.log[i].call = "ir.model.search" => r.log[i].ok) =>
                  /\ r.failed = Len(FailedCreates(r))
                  /\ r.failed_fields = ArgsOf(FailedCreates(r))
            /\ Exited(r) => Len(CallsOf(r, "ir.ui.view.search")) = 1

(* C7 witness: the create call of the first of two fields fails, the second
   field is created and the view step completes. *)
C7_Witness ==
    LET r == proc[1] IN
    /\ Exited(r) /\ r.resolved /\ Len(Fields) = 2
    /\ r.outcomes[1].outcome = "failed" /\ r.outcomes[1].cause = "create_fault"
    /\ r.outcomes[2].outcome = "created"
    /\ r.failed = 1 /\ r.viewDone

(* C8: the layout name computed for a target model is the same on every run
   and differs from the name of every view that belongs to another model. *)
C8_LayoutNamesDistinct ==
    \A p \in Procs :
        LET r == proc[p] IN
        (Exited(r) /\ r.success) =>
            \A v \in rViews :
                /\ v.id = r.view_id => v.name = ViewName(r.worksheet_model)
                /\ v.model # r.worksheet_model => v.name # ViewName(r.worksheet_model)

(* C9: the template input loaded from disk names 'Vibration Test', which
   resolves to x_fsm_vibration, with the single field x_test_objective (text)
   not yet on the model, no view named view_x_fsm_vibration_form and no remote
   fault: one field create call, one view create call, no view write, success,
   created = 1, failed = 0. *)
C9_Scenario ==
    \A p \in Procs :
        LET r == proc[p] IN
        (/\ Exited(r) /\ r.clean /\ r.loaded
         /\ template.template_name = "Vibration Test"
         /\ template.fields = <<F_objective>>
         /\ \A f \in r.snapF : ~(f.model = M_vibration /\ f.name = "x_test_objective")
         /\ \A v \in r.snapV :
               v.name # <<"view", "_", "x", "_", "fsm", "_", "vibration", "_", "form">>) =>
            /\ r.worksheet_model = M_vibration
            /\ Len(CallsOf(r, "ir.model.fields.create")) = 1
            /\ Len(CallsOf(r, "ir.ui.view.create")) = 1
            /\ Len(CallsOf(r, "ir.ui.view.write")) = 0
            /\ \E v \in rViews :
                  /\ v.id = r.view_id
                  /\ v.name = <<"view", "_", "x", "_", "fsm", "_", "vibration", "_", "form">>
            /\ \E f \in rFields :
                  f.model = M_vibration /\ f.name = "x_test_objective" /\ f.ttype = "text"
            /\ r.success /\ r.created = 1 /\ r.failed = 0 /\ r.failed_fields = <<>>

(* C9 witness: the end of that run in the vibration designer. *)
C9_Witness ==
    LET r == proc[1] IN
    /\ Exited(r) /\ r.clean /\ r.runs = 1 /\ script = "odd_temp_veb"
    /\ template.template_name = "Vibration Test"
    /\ template.fields = <<F_objective>>
    /\ r.snapF = {} /\ r.snapV = {}

(* C10: when the single authenticate call faults or returns no identity, the
   process ends with exit status 1 and no execute_kw call is issued. *)
C10_AuthFailureIsFatal ==
    \A p \in Procs :
        LET r == proc[p] IN
        /\ Len(CallsOf(r, "authenticate")) <= 1
        /\ (Len(r.log) > 0 /\ ~r.log[1].ok) =>
              /\ r.log[1].call = "authenticate"
              /\ Exited(r) /\ r.exit = 1 /\ ~r.success
              /\ Len(r.log) = 1
              /\ r.uid = None
              /\ rFields = r.snapF /\ rViews = r.snapV
        /\ (Len(r.log) > 1) => (r.log[1].call = "authenticate" /\ r.log[1].ok)

(* C10 witness: authenticate answered False (no identity) and the process is
   gone with status 1. *)
C10_Witness ==
    LET r == proc[1] IN
    /\ Exited(r) /\ r.exit = 1
    /\ r.log = <<Call("authenticate", "false", FALSE, FALSE)>>

(* C11: a process that has ended has status 0 exactly when its run returned
   success true, and status 1 when config.json is missing, when the template
   file is missing (in both cases before any remote call), when
   authentication failed, when the template file could not be loaded as JSON,
   when the template was not resolved, and when the view step failed. *)
C11_ExitStatus ==
    \A p \in Procs :
        LET r == proc[p] IN
        /\ r.exit \in {None, 0, 1}
        /\ r.exit # None <=> Exited(r)
        /\ Exited(r) =>
              /\ r.exit = 0 <=> r.success
              /\ files.config = "missing" => (r.exit = 1 /\ r.log = <<>>)
              /\ files.template_file = "missing" => (r.exit = 1 /\ r.log = <<>>)
              /\ (Len(r.log) > 0 /\ ~r.log[1].ok) => r.exit = 1
              /\ files.template_file = "invalid" => (r.exit = 1 /\ ~r.loaded)
              /\ ~r.resolved => r.exit = 1
              /\ ~r.viewDone => r.exit = 1

(* C11 witness: the template file is there but is not JSON; the process
   authenticated, failed to load it and ended with status 1. *)
C11_Witness ==
    LET r == proc[1] IN
    /\ files.template_file = "invalid"
    /\ Exited(r) /\ r.exit = 1
    /\ r.log = <<Call("authenticate", "uid", TRUE, FALSE)>>

(* the stage of a run a remote call belongs to: 0 the handshake, 1 template
   resolution, 2 the field loop, 3 the view step *)
StageOf(call) ==
    CASE call = "authenticate" -> 0
      [] call \in {"worksheet.template.search", "worksheet.template.read",
                   "ir.model.read"} -> 1
      [] call \in {"ir.model.fields.search", "ir.model.search",
                   "ir.model.fields.create", "ir.default.set"} -> 2
      [] OTHER -> 3

(* C12: in every run the remote calls come in the order resolution, fields,
   view: no resolution call follows a field call, the first ir.ui.view call is
   issued only after every field of the input list has got its outcome, and a
   run whose resolution succeeded issues exactly one ir.ui.view search before
   it ends, also when fields failed. *)
C12_RunOrdering ==
    \A p \in Procs :
        LET r == proc[p] IN
        /\ \A i \in 1..(Len(r.log) - 1) :
              StageOf(r.log[i].call) <= StageOf(r.log[i+1].call)
        /\ (\E i \in 1..Len(r.log) : StageOf(r.log[i].call) >= 2) =>
              /\ r.resolved
              /\ Len(CallsOf(r, "worksheet.template.search")) = 1
              /\ Len(CallsOf(r, "worksheet.template.read")) = 1
              /\ Len(CallsOf(r, "ir.model.read")) = 1
        /\ (\E i \in 1..Len(r.log) : StageOf(r.log[i].call) = 3) =>
              /\ Len(r.outcomes) = Len(Fields)
              /\ Len(CallsOf(r, "ir.model.fields.search")) = Len(Fields)
        /\ (Exited(r) /\ r.resolved) =>
              /\ Len(CallsOf(r, "ir.ui.view.search")) = 1
              /\ Len(CallsOf(r, "ir.ui.view.write"))
                   + Len(CallsOf(r, "ir.ui.view.create")) <= 1
        /\ ~r.resolved => \A i \in 1..Len(r.log) : StageOf(r.log[i].call) <= 1

(* C12 witness: a run over two fields that both failed, ended after its one
   view step. *)
C12_Witness ==
    LET r == proc[1] IN
    /\ Exited(r) /\ r.resolved /\ Len(Fields) = 2
    /\ r.failed = 2
    /\ Len(CallsOf(r, "ir.ui.view.search")) = 1
    /\ r.viewDone

(* C13: a field whose (model, name) already exists is left untouched: no
   ir.model.fields create call is issued for it, also when the existence query
   raised a fault; no default is registered for it; and every row that was
   there when the run began is still there unchanged (nothing is written or
   deleted). *)
C13_ExistingFieldsUntouched ==
    \A p \in Procs :
        LET r == proc[p] IN
        /\ \A f \in r.snapF : f \in rFields
        /\ \A i \in 1..Len(r.log) :
              /\ r.log[i].call = "ir.model.fields.create" => ~r.log[i].existed
              /\ r.log[i].call = "ir.default.set" =>
                    /\ i > 1
                    /\ r.log[i-1].call = "ir.model.fields.create"
                    /\ r.log[i-1].arg = r.log[i].arg
                    /\ r.log[i-1].ok /\ ~r.log[i-1].existed
              /\ r.log[i].call \notin {"ir.model.fields.write", "ir.model.fields.unlink"}

(* the part of C13 that holds whatever the existence query answers: the rows
   of existing fields stay as they were, no default is registered for them and
   no write or delete call is ever issued on ir.model.fields. *)
C13_ExistingRowsKept ==
    \A p \in Procs :
        LET r == proc[p] IN
        /\ \A f \in r.snapF : f \in rFields
        /\ \A i \in 1..Len(r.log) :
              /\ r.log[i].call = "ir.default.set" =>
                    /\ i > 1
                    /\ r.log[i-1].call = "ir.model.fields.create"
                    /\ r.log[i-1].arg = r.log[i].arg
                    /\ r.log[i-1].ok /\ ~r.log[i-1].existed
              /\ r.log[i].call \notin {"ir.model.fields.write", "ir.model.fields.unlink"}

(* the view record create_worksheet_view asks the remote to create *)
NewView(r, id) ==
    [id |-> id, name |-> ViewName(r.worksheet_model), model |-> r.worksheet_model,
     type |-> "form", arch |-> GenerateXml(script, template), priority |-> 1]

(* C14: when the search by (layout name, target model) returned records, the
   view step issues no create call, and if its write answered it has put the
   generated content on the first returned record and on no other and
   returned that record's identifier; when the search returned none and the
   create answered, exactly one create call was issued, the views are those
   from before the run plus one new record carrying the name, the model, type
   'form', the generated content and priority 1, and its new identifier is
   returned. *)
C14_CreateOrReplace ==
    \A p \in Procs :
        LET r == proc[p] IN
        /\ r.existing_views # <<>> =>
              Len(CallsOf(r, "ir.ui.view.create")) = 0
        /\ (Exited(r) /\ r.viewDone /\ r.existing_views # <<>>) =>
              /\ Len(CallsOf(r, "ir.ui.view.write")) = 1
              /\ r.view_id = r.existing_views[1]
              /\ rViews = { IF v.id = r.existing_views[1]
                            THEN [v EXCEPT !.arch = GenerateXml(script, template)]
                            ELSE v : v \in r.snapV }
        /\ (Exited(r) /\ r.viewDone /\ r.existing_views = <<>>) =>
              /\ Len(CallsOf(r, "ir.ui.view.create")) = 1
              /\ Len(CallsOf(r, "ir.ui.view.write")) = 0
              /\ r.view_id \notin { v.id : v \in r.snapV }
              /\ rViews = r.snapV \cup {NewView(r, r.view_id)}

(* C14 witness: the search returned two records, in the order that puts the
   higher identifier first, and the write went to that one. *)
C14_Witness ==
    LET r == proc[1] IN
    /\ Exited(r) /\ r.viewDone
    /\ r.existing_views = <<3, 1>>
    /\ r.view_id = 3
    /\ \E v \in rViews : v.id = 1 /\ v.arch = OldArch

(* C15: in every designer script the default value of a field is registered
   best-effort and apart from the field create call: the create payload
   carries no default, a default call is issued only right after the create
   call of the same field has succeeded, and a field whose default call failed
   is reported as created, not failed, and is on the remote model. *)
C15_DefaultIsBestEffort ==
    \A p \in Procs :
        LET r == proc[p] IN
        /\ r.pc = "fcreate" =>
              FieldValues(script, CurField(r), r.model_ids[1]).default = Absent
        /\ \A i \in 1..Len(r.log) :
              r.log[i].call = "ir.default.set" =>
                  /\ i > 1
                  /\ r.log[i-1].call = "ir.model.fields.create"
                  /\ r.log[i-1].arg = r.log[i].arg
                  /\ r.log[i-1].ok
        /\ \A i \in 1..Len(r.outcomes) :
              r.outcomes[i].cause = "default_fault" =>
                  /\ r.outcomes[i].outcome = "created"
                  /\ FieldSearch(r.worksheet_model, r.outcomes[i].name) # {}

(* the number of fields of the run that ended with the given outcome *)
CountOutcome(r, o) ==
    Cardinality({ i \in 1..Len(r.outcomes) : r.outcomes[i].outcome = o })

(* C16: once the field loop is over, every field has exactly one of the
   outcomes created, skipped, failed; the result's created count is the number
   of fields this run created, so that a field that was skipped as existing is
   not counted as created; the failed count is the number of failed fields;
   and created + skipped + failed is the number of field specs. *)
C16_ThreeOutcomes ==
    \A p \in Procs :
        LET r == proc[p] IN
        PastLoop(r) =>
            /\ Len(r.outcomes) = Len(Fields)
            /\ \A i \in 1..Len(r.outcomes) :
                  r.outcomes[i].outcome \in {"created", "skipped", "failed"}
            /\ r.created = CountOutcome(r, "created")
            /\ r.failed = CountOutcome(r, "failed")
            /\ r.created + CountOutcome(r, "skipped") + r.failed = Len(Fields)

(* whether a field (worksheet model of the run, name) was on the remote model
   when the i-th call of the run was issued: it was there when the run began,
   or an earlier create call of the run succeeded for it *)
ExistedAt(r, i, name) ==
    \/ \E f \in r.snapF : f.model = r.worksheet_model /\ f.name = name
    \/ \E j \in 1..(i-1) :
          /\ r.log[j].call = "ir.model.fields.create"
          /\ r.log[j].ok /\ r.log[j].arg = name

(* the call that follows the i-th call of the run, "" while none was issued *)
CallAfter(r, i) == IF i < Len(r.log) THEN r.log[i+1].call ELSE ""

(* C17: when the existence query of a field raises a fault, create_field
   goes on to the model lookup and, the model found, to the create call, also
   when the field exists; when the query answers, the field is skipped as
   existing exactly when a record with both the model name and the field name
   exists, and otherwise create_field goes on to the model lookup. *)
C17_FailOpenExistenceCheck ==
    \A p \in Procs :
        LET r == proc[p] IN
        \A i \in 1..Len(r.log) :
            r.log[i].call = "ir.model.fields.search" =>
                LET exists == ExistedAt(r, i, r.log[i].arg)
                    skip == r.log[i].ok /\ exists
                IN  /\ skip =>
                          /\ CallAfter(r, i) \in
                                {"", "ir.model.fields.search", "ir.ui.view.search"}
                          /\ i = Len(r.log) => r.pc \in {"fcheck", "vsearch"}
                    /\ ~skip =>
                          /\ CallAfter(r, i) \in {"", "ir.model.search"}
                          /\ i = Len(r.log) => r.pc = "fmodel"
                          /\ (CallAfter(r, i) = "ir.model.search" /\ r.log[i+1].ok
                                /\ i + 1 < Len(r.log)) =>
                                /\ r.log[i+2].call = "ir.model.fields.create"
                                /\ r.log[i+2].arg = r.log[i].arg
                                /\ r.log[i+2].existed = exists

(* C17 witness: the existence query of a field that exists raised a fault and
   the create call for that field was issued. *)
C17_Witness ==
    LET r == proc[1] IN
    \E i \in 1..Len(r.log) :
        /\ r.log[i].call = "ir.model.fields.search"
        /\ ~r.log[i].ok /\ ExistedAt(r, i, r.log[i].arg)
        /\ i + 2 <= Len(r.log)
        /\ r.log[i+2].call = "ir.model.fields.create"
        /\ OldObjective \in r.snapF

(* the worksheet.template record the run read: the first identifier of the
   search result *)
ReadTemplate(r) == CHOOSE t \in Templates : t.id = r.template_ids[1]

(* whether the named call of the run was answered *)
Answered(r, name) == \E i \in 1..Len(r.log) : r.log[i].call = name /\ r.log[i].ok

(* a linkage of template resolution is missing: one of the three resolution
   calls raised a fault or the record read came back empty, the template
   record has no model reference, or the model read returned no record *)
LinkageMissing(r) ==
    \/ \E i \in 1..Len(r.log) : StageOf(r.log[i].call) = 1 /\ ~r.log[i].ok
    \/ /\ Answered(r, "worksheet.template.read")
       /\ ReadTemplate(r).model_id = 0
    \/ /\ Answered(r, "ir.model.read")
       /\ ModelOfId(ReadTemplate(r).model_id) = {}

(* C18: when a linkage of template resolution is missing,
   find_worksheet_template_by_name has returned (None, None), the run has
   returned success false and the process has ended with status 1, with no
   field call and no view call issued and the remote fields and views as they
   were. *)
C18_MissingLinkageHalts ==
    \A p \in Procs :
        LET r == proc[p] IN
        LinkageMissing(r) =>
            /\ r.template_id = None /\ r.worksheet_model = NoModel
            /\ ~r.resolved
            /\ Exited(r) /\ ~r.success /\ r.exit = 1
            /\ \A i \in 1..Len(r.log) : StageOf(r.log[i].call) <= 1
            /\ r.outcomes = <<>> /\ r.view_id = None
            /\ rFields = r.snapF /\ rViews = r.snapV

(* C18 witness: the template record points to a model that the model read
   does not return. *)
C18_Witness ==
    LET r == proc[1] IN
    /\ Exited(r) /\ Len(r.log) = 4
    /\ \A i \in 1..4 : r.log[i].ok
    /\ r.log[4].call = "ir.model.read"
    /\ ModelOfId(ReadTemplate(r).model_id) = {}
    /\ Len(template.fields) = 1

(* C18 witness of the other cases: a template record without model
   reference, and a fault of the model read. *)
C18_WitnessNoModelReference ==
    LET r == proc[1] IN
    /\ Exited(r) /\ Len(r.log) = 3 /\ r.log[3].ok
    /\ ReadTemplate(r).model_id = 0
C18_WitnessFault ==
    LET r == proc[1] IN
    /\ Exited(r) /\ Len(r.log) = 4
    /\ r.log[4].call = "ir.model.read" /\ ~r.log[4].ok

(* C19: when the template search returned several identifiers, only the first
   one is read, once; if no linkage of that first record is missing the run is
   resolved to the model of that record, and every field and every view the
   run has added or changed belongs to that model. *)
C19_FirstMatchWins ==
    \A p \in Procs :
        LET r == proc[p] IN
        Len(r.template_ids) > 1 =>
            /\ Len(CallsOf(r, "worksheet.template.read")) <= 1
            /\ r.pc \in {"tread", "mread"} => r.template_id = r.template_ids[1]
            /\ (Answered(r, "ir.model.read") /\ ~LinkageMissing(r)) =>
                  /\ r.resolved
                  /\ r.template_id = r.template_ids[1]
                  /\ r.model_id = ReadTemplate(r).model_id
                  /\ r.worksheet_model \in ModelOfId(ReadTemplate(r).model_id)
                  /\ \A f \in rFields \ r.snapF : f.model = r.worksheet_model
                  /\ \A v \in rViews \ r.snapV : v.model = r.worksheet_model
                  /\ Exited(r) => Len(CallsOf(r, "ir.ui.view.search")) = 1

(* C19 witness: two templates are named 'Dotted'; the search returned the one
   of x_my_model first, and the run created its field and its view there. *)
C19_Witness ==
    LET r == proc[1] IN
    /\ r.template_ids = <<3, 2>>
    /\ Exited(r) /\ r.success /\ r.worksheet_model = M_under
    /\ \E f \in rFields \ r.snapF : f.model = M_under
    /\ \E v \in rViews \ r.snapV : v.model = M_under

(* the remote type the claim states for a declared type tag *)
StatedType(tag) ==
    CASE tag = "char" -> "char"
      [] tag = "text" -> "text"
      [] tag = "integer" -> "integer"
      [] tag = "float" -> "float"
      [] tag = "date" -> "date"
      [] tag = "datetime" -> "datetime"
      [] tag = "boolean" -> "boolean"
      [] tag = "selection" -> "selection"
      [] OTHER -> "char"

(* C20: the create payload of a field carries the remote type of the same
   name for the eight known tags and 'char' for every other tag; a field row
   the run created has that type; and in a run without abnormal remote answer
   no field is failed, whatever its type tag: each is created or skipped. *)
C20_TypeMappingTotal ==
    \A p \in Procs :
        LET r == proc[p] IN
        /\ r.pc = "fcreate" =>
              FieldValues(script, CurField(r), r.model_ids[1]).ttype =
                  StatedType(CurField(r).field_type)
        /\ r.resolved =>
              \A f \in rFields \ r.snapF :
                  \E i \in 1..Len(Fields) :
                      /\ Fields[i].name = f.name
                      /\ f.ttype = StatedType(Fields[i].field_type)
        /\ (PastLoop(r) /\ r.clean) =>
              /\ r.failed = 0
              /\ \A i \in 1..Len(r.outcomes) :
                    r.outcomes[i].outcome \in {"created", "skipped"}

(* C20 witness: a field declared with the tag 'html' was created as 'char'. *)
C20_Witness ==
    LET r == proc[1] IN
    /\ template.fields = <<F_rich>>
    /\ Exited(r) /\ r.clean /\ r.created = 1 /\ r.failed = 0
    /\ Len(CallsOf(r, "ir.model.fields.create")) = 1
    /\ \E f \in rFields \ r.snapF : f.name = F_rich.name /\ f.ttype = "char"

(* the calls of the run that belong to its k-th field: those of the field
   loop issued from the k-th existence query up to the next one *)
FieldCalls(r, k) ==
    { i \in 1..Len(r.log) :
        /\ StageOf(r.log[i].call) = 2
        /\ Cardinality({ j \in 1..i : r.log[j].call = "ir.model.fields.search" }) = k }

(* the positions of the failed fields in the input list, as the outcomes
   record them *)
FailedAt(r) == { k \in 1..Len(r.outcomes) : r.outcomes[k].outcome = "failed" }

(* C21: when the lookup of the target model's identifier in ir.model returns
   no record for a field that was not found to exist, no create call is
   issued for that field, that field is counted as failed and its name is in
   failed_fields, the loop goes on with the next field, and the run ends
   after its one view step. *)
C21_ModelLookupEmpty ==
    \A p \in Procs :
        LET r == proc[p] IN
        \A k \in 1..Len(r.outcomes) :
            r.outcomes[k].cause = "model_missing" =>
                /\ r.outcomes[k].outcome = "failed"
                /\ r.outcomes[k].name = Fields[k].name
                /\ \A i \in FieldCalls(r, k) :
                      r.log[i].call \in {"ir.model.fields.search", "ir.model.search"}
                /\ r.failed = Cardinality(FailedAt(r))
                /\ Len(r.failed_fields) = Cardinality(FailedAt(r))
                /\ \E j \in 1..Len(r.failed_fields) : r.failed_fields[j] = Fields[k].name
                /\ k < Len(Fields) => ((r.idx > k /\ r.pc # "exited") \/ PastLoop(r))
                /\ k = Len(Fields) => PastLoop(r)
                /\ Exited(r) =>
                      /\ Len(r.outcomes) = Len(Fields)
                      /\ Len(CallsOf(r, "ir.ui.view.search")) = 1

(* C21 witness: the model lookup of the first of two fields returned no
   record; the second field was created and the view step completed. *)
C21_Witness ==
    LET r == proc[1] IN
    /\ Exited(r) /\ r.resolved /\ Len(Fields) = 2
    /\ r.outcomes[1].cause = "model_missing"
    /\ r.outcomes[2].outcome = "created"
    /\ r.failed_fields = <<Fields[1].name>>
    /\ r.viewDone

(* the number of calls of the given name among the calls at positions S *)
CountIn(r, S, name) == Cardinality({ i \in S : r.log[i].call = name })

(* C22: no remote step is retried within a run: authenticate is called once,
   as the first call; each resolution call is issued at most once; there are
   no more existence queries than fields, and between two field calls of the
   same kind lies the existence query that opens another field, so each field
   has at most one model lookup, one create call and one default
   registration; and the view step issues one search and
   then at most one of write or create, also after faults. *)
C22_NoRetry ==
    \A p \in Procs :
        LET r == proc[p]
            all == 1..Len(r.log)
        IN
        /\ Len(r.log) > 0 =>
              /\ r.log[1].call = "authenticate"
              /\ CountIn(r, all, "authenticate") = 1
        /\ \A c \in {"worksheet.template.search", "worksheet.template.read",
                     "ir.model.read"} : CountIn(r, all, c) <= 1
        /\ CountIn(r, all, "ir.model.fields.search") <= Len(Fields)
        /\ \A i \in all :
              StageOf(r.log[i].call) = 2 =>
                  \A j \in (i+1)..Len(r.log) :
                      r.log[j].call = r.log[i].call =>
                          \E q \in (i+1)..j : r.log[q].call = "ir.model.fields.search"
        /\ CountIn(r, all, "ir.ui.view.search") <= 1
        /\ CountIn(r, all, "ir.ui.view.write") + CountIn(r, all, "ir.ui.view.create")
              <= CountIn(r, all, "ir.ui.view.search")
        /\ (Exited(r) /\ r.resolved) => CountIn(r, all, "ir.ui.view.search") = 1

(* C22 witness: a run in which a field create call and the view search both
   faulted, ended without a second attempt at either. *)
C22_Witness ==
    LET r == proc[1] IN
    /\ Exited(r) /\ r.resolved /\ ~r.success
    /\ Len(FailedCreates(r)) = 1
    /\ \E i \in 1..Len(r.log) : r.log[i].call = "ir.ui.view.search" /\ ~r.log[i].ok
    /\ \A i \in 1..Len(r.log) : r.log[i].call = "ir.ui.view.search" => i = Len(r.log)

(* the existence query that opens the field of the i-th call of the run *)
QueryOf(r, i) ==
    CHOOSE j \in 1..i :
        /\ r.log[j].call = "ir.model.fields.search"
        /\ \A k \in (j+1)..i : r.log[k].call # "ir.model.fields.search"

(* both runs have issued a create call for the same field name on the same
   model, each after an existence query that was answered *)
BothCreate(i, j) ==
    LET r == proc[1]
        q == proc[2]
    IN
    /\ i \in 1..Len(r.log) /\ j \in 1..Len(q.log)
    /\ r.log[i].call = "ir.model.fields.create"
    /\ q.log[j].call = "ir.model.fields.create"
    /\ r.log[i].arg = q.log[j].arg
    /\ r.worksheet_model = q.worksheet_model
    /\ r.log[QueryOf(r, i)].ok /\ q.log[QueryOf(q, j)].ok

(* C23: two interleaved runs can both issue a create call for the same
   (model, field name) pair, and when they do after answered existence
   queries, both queries answered 'absent': each was made before any create
   for the pair had gone through.  The remote lets at most one of the two
   creates through, so the pair has one row and not both calls succeeded. *)
C23_DuplicateCreateRace ==
    \A i \in 1..Len(proc[1].log), j \in 1..Len(proc[2].log) :
        BothCreate(i, j) =>
            LET r == proc[1]
                q == proc[2]
            IN
            /\ ~r.log[QueryOf(r, i)].existed
            /\ ~q.log[QueryOf(q, j)].existed
            /\ ~(r.log[i].ok /\ q.log[j].ok)
            /\ Cardinality(FieldSearch(r.worksheet_model, r.log[i].arg)) <= 1

(* C23 witness: both runs asked and were told the field is absent, both went
   on to the create call for the same pair, the first went through and the
   second met the existing field. *)
C23_Witness ==
    \E i \in 1..Len(proc[1].log), j \in 1..Len(proc[2].log) :
        /\ BothCreate(i, j)
        /\ proc[1].runs = 1 /\ proc[2].runs = 1
        /\ proc[1].log[i].ok
        /\ ~proc[2].log[j].ok /\ proc[2].log[j].existed
        /\ faults = 0

(* C24: in the connectivity test script and in the model diagnostic script, a
   failed handshake (authenticate raised a fault or returned no identity)
   ends the process with a non-zero exit status and no remote call follows
   it. *)
C24_ToolsAuthFailureIsFatal ==
    \A p \in Procs :
        LET r == proc[p] IN
        (Len(r.log) > 0 /\ r.log[1].call = "authenticate" /\ ~r.log[1].ok) =>
            /\ Exited(r)
            /\ r.exit # None /\ r.exit # 0
            /\ Len(r.log) = 1

(* the part of C24 that holds: after a failed handshake the process has ended
   and has issued no other remote call. *)
C24_NoCallAfterFailedHandshake ==
    \A p \in Procs :
        LET r == proc[p] IN
        (Len(r.log) > 0 /\ r.log[1].call = "authenticate" /\ ~r.log[1].ok) =>
            /\ Exited(r)
            /\ Len(r.log) = 1

(* the names of the fields processed so far whose create_field returned
   False, in input order *)
FailedNames(r) ==
    LET failed == SelectSeq(r.outcomes, LAMBDA o : o.outcome = "failed")
    IN  [i \in 1..Len(failed) |-> failed[i].name]

(* C25: in a resolved run, when k fields have been processed,
   created + failed = k and failed is the length of failed_fields; while the
   loop is at its k-th field, k - 1 fields have been processed; when the loop
   is over, created + failed is the number of fields of the input; and
   failed_fields holds the names of the failed fields in input order. *)
C25_CounterInvariant ==
    \A p \in Procs :
        LET r == proc[p] IN
        r.resolved =>
            /\ r.created + r.failed = Len(r.outcomes)
            /\ r.failed = Len(r.failed_fields)
            /\ r.pc \in {"fcheck", "fmodel", "fcreate", "fdefault"} =>
                  (r.idx \in 1..Len(Fields) /\ Len(r.outcomes) = r.idx - 1)
            /\ \A k \in 1..Len(r.outcomes) : r.outcomes[k].name = Fields[k].name
            /\ PastLoop(r) => r.created + r.failed = Len(Fields)
            /\ r.failed_fields = FailedNames(r)

(* C25 witness: of two fields the first was skipped as existing and the
   second failed. *)
C25_Witness ==
    LET r == proc[1] IN
    /\ PastLoop(r) /\ Len(Fields) = 2
    /\ r.outcomes[1].outcome = "skipped" /\ r.outcomes[2].outcome = "failed"
    /\ r.created = 1 /\ r.failed = 1
    /\ r.failed_fields = <<Fields[2].name>>

(* the views of the run's (computed name, model) pair among the given views *)
OwnViews(r, views) == ViewsOf(views, r.worksheet_model)

(* the run of process r came after the one run of process q: the view q
   created was there when r's run began *)
RanAfter(r, q) ==
    /\ Exited(q) /\ q.viewDone
    /\ \E v \in r.snapV : v.id = q.view_id

(* C26: a view create call is issued only after a search that returned no
   record, so two views with the same (name, model) come from interleaved
   runs whose searches both returned none.  A later run that begins with two
   such views, after the other run has ended, and completes its view step has
   issued no create call, has written to the first record its search returned
   and has left every other view, the second of the pair included, as it was
   when the run began; the record written carries content generated from the
   template file, as it was before or after its edit. *)
C26_ViewRaceAndSequel ==
    /\ \A p \in Procs :
          \A i \in 1..Len(proc[p].log) :
              proc[p].log[i].call = "ir.ui.view.create" =>
                  /\ i > 1
                  /\ proc[p].log[i-1].call = "ir.ui.view.search"
                  /\ proc[p].log[i-1].ok /\ ~proc[p].log[i-1].existed
    /\ \A p, o \in Procs :
          LET r == proc[p]
              q == proc[o]
          IN
          (/\ p # o /\ RanAfter(r, q)
           /\ Cardinality(OwnViews(r, r.snapV)) > 1
           /\ Exited(r) /\ r.viewDone) =>
              /\ Len(r.existing_views) = Cardinality(OwnViews(r, r.snapV))
              /\ Len(CallsOf(r, "ir.ui.view.create")) = 0
              /\ Len(CallsOf(r, "ir.ui.view.write")) = 1
              /\ r.view_id = r.existing_views[1]
              /\ \A v \in r.snapV : v.id # r.existing_views[1] => v \in rViews
              /\ \E v \in rViews :
                    /\ v.id = r.existing_views[1]
                    /\ v.arch \in { GenerateXml(script, [template EXCEPT !.template_code = c]) :
                                      c \in TemplateCodes }
              /\ Cardinality(rViews) = Cardinality(r.snapV)

(* C26 witness: both runs created a view for x_fsm_vibration; the template
   file was then given the other layout; the later run wrote the new content
   to the first record its search returned, and the other record of the pair
   still has the content of the race. *)
C26_Witness ==
    LET r == proc[1]
        q == proc[2]
    IN
    /\ RanAfter(r, q)
    /\ Cardinality(OwnViews(r, r.snapV)) = 2
    /\ Exited(r) /\ r.viewDone /\ r.runs = 2
    /\ Len(r.existing_views) = 2
    /\ \E v, w \in OwnViews(r, rViews) :
          /\ v.id = r.existing_views[1] /\ w.id = r.existing_views[2]
          /\ v.arch = GenerateXml(script, template)
          /\ w.arch # GenerateXml(script, template)
          /\ w \in r.snapV

(* C27: updating an existing view changes only its content.  Of a run whose
   search returned records, every returned identifier is that of a view with
   the computed name and the target model; once its write has answered, every
   view from before the run is still there with its name, model, type and
   priority, every view but the one written is exactly as it was, and so is
   any view that carries the computed name on another model, which the search
   did not return. *)
C27_WriteChangesOnlyContent ==
    LET r == proc[1] IN
    /\ \A i \in 1..Len(r.existing_views) :
          \E v \in rViews :
              /\ v.id = r.existing_views[i]
              /\ v.name = ViewName(r.worksheet_model)
              /\ v.model = r.worksheet_model
    /\ (Exited(r) /\ r.viewDone /\ r.existing_views # <<>>) =>
          /\ \A v \in r.snapV :
                \E w \in rViews :
                    /\ w.id = v.id
                    /\ w.name = v.name /\ w.model = v.model
                    /\ w.type = v.type /\ w.priority = v.priority
                    /\ v.id # r.view_id => w = v
          /\ \A v \in r.snapV :
                (v.name = ViewName(r.worksheet_model) /\ v.model # r.worksheet_model) =>
                    /\ v \in rViews
                    /\ \A i \in 1..Len(r.existing_views) : r.existing_views[i] # v.id

(* C27 witness: the second run for the dotted model has written to the view
   the first run created, while a view of the same computed name on the
   underscored model is on the remote. *)
C27_Witness ==
    LET r == proc[1] IN
    /\ Exited(r) /\ r.viewDone /\ r.runs = 2
    /\ r.worksheet_model = M_dotted
    /\ Len(r.existing_views) = 1
    /\ Len(CallsOf(r, "ir.ui.view.write")) = 1
    /\ OldViewUnder \in rViews
    /\ OldViewUnder.name = ViewName(M_dotted)

(* the last remote call of a run is a view write or create that answered *)
ViewStepAnswered(r) ==
    /\ Len(r.log) > 0
    /\ r.log[Len(r.log)].call \in {"ir.ui.view.write", "ir.ui.view.create"}
    /\ r.log[Len(r.log)].ok

(* C28: once the template is resolved the exit status follows the view step
   alone: the process ends with 0 exactly when the last call of the run, the
   view write or create, answered, and with 1 otherwise; so a run whose every
   field failed ends with 0 when the view was created or updated, and a run
   whose every field was created ends with 1 when the view step failed. *)
C28_ExitFollowsViewStep ==
    \A p \in Procs :
        LET r == proc[p] IN
        (Exited(r) /\ r.resolved) =>
            /\ r.exit = 0 <=> ViewStepAnswered(r)
            /\ (r.failed = Len(Fields) /\ ViewStepAnswered(r)) => r.exit = 0
            /\ (r.created = Len(Fields) /\ ~ViewStepAnswered(r)) => r.exit = 1

(* C28 witness: a run in which the one declared field failed and the view was
   written or created has ended with 0, after a run in which no field failed
   and the view step failed had ended with 1. *)
C28_Witness ==
    LET r == proc[1] IN
    /\ Exited(r) /\ r.resolved
    /\ Len(Fields) > 0 /\ r.failed = Len(Fields)
    /\ ViewStepAnswered(r) /\ r.exit = 0
    /\ r.prev.valid /\ r.prev.resolved /\ r.prev.failed = 0
    /\ r.prev.view_id = None /\ ~r.prev.success

(* a declaration with a name that lacks 'field_type' or 'label' *)
KeyLess(fc) == fc.name # Absent /\ (fc.field_type = Absent \/ fc.label = Absent)

(* the positions of the declarations without 'name' *)
Nameless == { k \in 1..Len(Fields) : Fields[k].name = Absent }

FirstNameless == CHOOSE k \in Nameless : \A j \in Nameless : k <= j

(* the calls of the view step in the log of a run *)
ViewCalls(r) == { i \in 1..Len(r.log) : StageOf(r.log[i].call) = 3 }

(* what a run does about declarations without 'name': with none, an ended
   resolved run has processed every field and made its view search; with one,
   it has ended at the first of them with status 1 and without a view call *)
NamelessRaises(r) ==
    /\ (Exited(r) /\ r.resolved /\ Nameless = {}) =>
          /\ Len(r.outcomes) = Len(Fields)
          /\ Len(CallsOf(r, "ir.ui.view.search")) = 1
    /\ (Exited(r) /\ r.resolved /\ Nameless # {}) =>
          /\ Len(r.outcomes) = FirstNameless - 1
          /\ ViewCalls(r) = {}
          /\ ~r.viewDone
          /\ r.exit = 1

(* C29 as stated: every processed declaration that lacks 'field_type' or
   'label' is recorded as a failed field and the run goes on with the next
   field and the view step; a declaration that lacks 'name' ends the run
   before the view step, with no view call and status 1. *)
C29_MalformedDeclarations ==
    LET r == proc[1] IN
    /\ \A k \in 1..Len(r.outcomes) :
          KeyLess(Fields[k]) =>
              /\ r.outcomes[k].outcome = "failed"
              /\ \E j \in 1..Len(r.failed_fields) : r.failed_fields[j] = Fields[k].name
    /\ NamelessRaises(r)

(* C29 amended: a processed declaration that lacks 'field_type' or 'label'
   never has a create call issued for it; it is recorded as a failed field,
   unless the existence query found a field of its name on the model, and
   then it is skipped and counted as created; either way the run goes on with
   the next field and the view step.  A declaration that lacks 'name' ends
   the run before the view step, with no view call and status 1. *)
C29_MalformedUnlessExisting ==
    LET r == proc[1] IN
    /\ \A k \in 1..Len(r.outcomes) :
          KeyLess(Fields[k]) =>
              /\ \A i \in FieldCalls(r, k) :
                    r.log[i].call \in {"ir.model.fields.search", "ir.model.search"}
              /\ r.outcomes[k].outcome \in {"failed", "skipped"}
              /\ r.outcomes[k].outcome = "skipped" <=>
                    \E i \in FieldCalls(r, k) :
                        /\ r.log[i].call = "ir.model.fields.search"
                        /\ r.log[i].ok /\ r.log[i].existed
              /\ r.outcomes[k].outcome = "failed" =>
                    /\ r.outcomes[k].cause \in {"key_missing", "model_fault", "model_missing"}
                    /\ \E j \in 1..Len(r.failed_fields) :
                          r.failed_fields[j] = Fields[k].name
              /\ r.created + r.failed = Len(r.outcomes)
    /\ NamelessRaises(r)

(* C29 witness: the first declaration lacks 'field_type' and failed after the
   existence query and the model lookup; the second lacks 'name', and the
   process has ended there with status 1 and no view call. *)
C29_Witness ==
    LET r == proc[1] IN
    /\ Fields = <<F_noType, F_noName>>
    /\ Exited(r) /\ r.resolved /\ r.exit = 1
    /\ Len(r.outcomes) = 1
    /\ r.outcomes[1].outcome = "failed" /\ r.outcomes[1].cause = "key_missing"
    /\ r.failed_fields = <<F_noType.name>>
    /\ ViewCalls(r) = {}

(* a declaration without 'label' failed, the well-formed one after it was
   created and the view step completed with status 0 *)
C29_WitnessContinues ==
    LET r == proc[1] IN
    /\ Fields = <<F_noLabel, F_status>>
    /\ Exited(r) /\ r.viewDone /\ r.exit = 0
    /\ r.outcomes[1].cause = "key_missing"
    /\ r.outcomes[2].outcome = "created"

(* a declaration without 'label' whose field the remote model holds was
   skipped and counted as created *)
C29_WitnessSkipped ==
    LET r == proc[1] IN
    /\ Fields = <<F_noLabel>>
    /\ Exited(r) /\ r.clean
    /\ r.outcomes[1].outcome = "skipped"
    /\ r.created = 1 /\ r.failed = 0

(* the position in the input list of the field the i-th call of the run
   belongs to: the number of existence queries issued up to that call *)
FieldOf(r, i) ==
    Cardinality({ j \in 1..i : r.log[j].call = "ir.model.fields.search" })

(* the default calls among the calls of the k-th field *)
DefaultCalls(r, k) == { i \in FieldCalls(r, k) : r.log[i].call = "ir.default.set" }

(* C30: in the vibration designer every default call comes right after the
   answered create call of the same field, which was not on the model when
   that create was issued, and the declared default of that field is neither
   missing nor the empty string, 0 or false; no default call belongs to a
   field that was skipped as existing, to a field that failed, or to a field
   whose declared default is empty, 0 or false. *)
C30_DefaultOnlyForNewTruthy ==
    LET r == proc[1] IN
    script = "odd_temp_veb" =>
        /\ \A i \in 1..Len(r.log) :
              r.log[i].call = "ir.default.set" =>
                  /\ i > 1
                  /\ r.log[i-1].call = "ir.model.fields.create"
                  /\ r.log[i-1].ok /\ ~r.log[i-1].existed
                  /\ r.log[i-1].arg = r.log[i].arg
                  /\ FieldOf(r, i) \in 1..Len(Fields)
                  /\ Fields[FieldOf(r, i)].name = r.log[i].arg
                  /\ Fields[FieldOf(r, i)].default_value \notin {Absent, "", "0", "False"}
        /\ \A k \in 1..Len(r.outcomes) :
              \/ r.outcomes[k].outcome \in {"skipped", "failed"}
              \/ Fields[k].default_value \in {"", "0", "False"}
              => DefaultCalls(r, k) = {}

(* C30 witness: of two declarations the first, with the default 'ok', was
   created and got its default call; the second, with the default 0, was
   created without one. *)
C30_Witness ==
    LET r == proc[1] IN
    /\ script = "odd_temp_veb"
    /\ Fields = <<F_status, F_zero>>
    /\ Exited(r) /\ r.created = 2
    /\ r.outcomes[1].outcome = "created" /\ r.outcomes[2].outcome = "created"
    /\ Cardinality(DefaultCalls(r, 1)) = 1
    /\ DefaultCalls(r, 2) = {}
    /\ \E f \in rFields : f.name = F_zero.name

(* a declaration with the default '' whose field the model holds was skipped,
   and one whose create call failed, both without a default call *)
C30_WitnessSkippedAndFailed ==
    LET r == proc[1] IN
    /\ script = "odd_temp_veb"
    /\ Fields = <<F_rich, F_status>>
    /\ Exited(r) /\ Len(r.outcomes) = 2
    /\ r.outcomes[1].outcome = "skipped"
    /\ r.outcomes[2].cause = "create_fault"
    /\ CallsOf(r, "ir.default.set") = <<>>

====
